---- MODULE Spec2Model ----
(***************************************************************************)
(* Semantic memory store of the Dristhi backend                            *)
(* (backend/app/services/memory_service.py, class MemoryService).          *)
(*                                                                         *)
(* State: the MemoryService objects of one deployment (embedding model,    *)
(* in-memory FAISS index), the index file on disk, the relational tables   *)
(* the service reads and writes, and the threads that run store_memory.    *)
(* Strings are sequences of one-character strings; an embedding is the     *)
(* pair of letter counts of the lower-cased text, and the FAISS score is   *)
(* the inner product of two embeddings.  Scores are kept in hundredths.    *)
(***************************************************************************)
EXTENDS Integers, Sequences, FiniteSets, TLC

(* ----------------------------- bounds --------------------------------- *)
NumUsers == 2
NumInst == 2
NumThreads == 2
MaxStores == 2
MaxRows == 1
MaxTopK == 2
MaxQueryRows == 2
MaxLegacy == 1
MaxReply == 5

Users == 1..NumUsers
Inst == 1..NumInst
Thread == 1..NumThreads
TopKs == 1..MaxTopK

Contents == { <<"a", "b">>, <<"B">> }
RowTexts == { <<"a", "b">> }
Queries == { <<>>, <<"b">> }
StoreTypes == { "career" }
SearchTypes == { "None", "career" }
ContextTypes == { "general", "career", "habits", "finance" }
InsertTables == { "careergoal" }
QueryTables == { "careergoal", "skill", "habit" }

NULL == -1

(* length of an embedding (get_sentence_embedding_dimension): Encode       *)
(* yields two components                                                   *)
IndexDim == 2

(* ------------------ names the model modules define -------------------- *)
(* app/models/memory.py with a class `Memory` in it                        *)
ModelsMemoryNamesWithMemory ==
    { "UserMemory", "Embedding", "Conversation", "Memory" }

(* Classes defined by app/models/memory.py: there is no class `Memory`.    *)
ModelsMemoryNames == { "UserMemory", "Embedding", "Conversation" }

(* Classes defined by app/models/career.py: there is no class `UserSkill`. *)
ModelsCareerNames ==
    { "CareerGoal", "Skill", "LearningPath", "LearningPathMilestone",
      "LearningPathProject" }

ModelsHabitsNames ==
    { "Habit", "Task", "CalendarEvent", "HabitCompletion", "HabitLog" }

ModelsFinanceNames == { "Expense", "Budget", "Income", "FinancialGoal" }

(* Column attributes of the classes the service touches by attribute.      *)
SkillColumns ==
    { "id", "user_id", "name", "category", "current_level", "target_level",
      "proficiency_score", "is_priority", "learning_resources",
      "practice_hours", "created_at", "updated_at", "last_practiced" }

MoodLogColumns ==
    { "id", "user_id", "mood_score", "energy_level", "stress_level",
      "anxiety_level", "primary_emotion", "secondary_emotions", "activities",
      "triggers", "location", "weather", "sleep_hours", "sleep_quality",
      "exercise_minutes", "social_interactions", "notes", "gratitude_notes",
      "log_date", "log_time", "logged_at", "entry_method", "is_private",
      "created_at", "updated_at" }

FinancialGoalColumns ==
    { "id", "user_id", "title", "description", "goal_type", "target_amount",
      "current_amount", "target_date", "created_at", "updated_at", "status",
      "priority", "monthly_contribution" }

(* `from ..models.memory import Memory` inside store_memory                *)
StoreImportsOK == "Memory" \in ModelsMemoryNames

(* the four model imports at the top of search_memories                    *)
SearchImportsOK ==
    /\ "Memory" \in ModelsMemoryNames
    /\ {"CareerGoal", "UserSkill"} \subseteq ModelsCareerNames
    /\ "Habit" \in ModelsHabitsNames
    /\ {"Expense", "FinancialGoal"} \subseteq ModelsFinanceNames

(* `from ..models.memory import Memory` inside semantic_search             *)
SemanticImportsOK == "Memory" \in ModelsMemoryNames

(* ------------------------------ strings -------------------------------- *)
LowerChar(c) ==
    IF c = "A" THEN "a" ELSE IF c = "B" THEN "b" ELSE c

Lower(s) == [i \in 1..Len(s) |-> LowerChar(s[i])]

(* SQL `col ILIKE '%q%'`: case-insensitive substring match                 *)
ILike(text, q) ==
    \E off \in 0..(Len(text) - Len(q)) :
        \A i \in 1..Len(q) : Lower(text)[off + i] = Lower(q)[i]

CountChar(s, c) == Cardinality({i \in 1..Len(s) : Lower(s)[i] = c})

(* SentenceTransformer.encode([text])[0]                                   *)
Encode(text) == << CountChar(text, "a"), CountChar(text, "b") >>

(* inner product of IndexFlatIP, in hundredths                             *)
InnerProduct(v, w) == 100 * (v[1] * w[1] + v[2] * w[2])

(* ------------------------------- state --------------------------------- *)
VARIABLES
    built,            \* built[i]: MemoryService() has run for object i
    embedding_model,  \* embedding_model[i]: TRUE = loaded, FALSE = None
    faiss_index,      \* faiss_index[i]: [loaded, vecs]; loaded FALSE = None
    disk,             \* index file at index_path: [exists, vecs]
    memory,           \* rows committed through the `Memory` model
    rows,             \* rows of the domain tables, oldest first
    pc,               \* pc[t]: where thread t is inside store_memory
    loc,              \* loc[t]: locals of thread t's store_memory call
    ret,              \* ret[t]: value returned by thread t's last call
    stores,           \* number of store_memory calls started
    faulted,          \* history: a write, encode, add or commit has failed
    last              \* the last search / context call and its result

vars == << built, embedding_model, faiss_index, disk, memory, rows,
           pc, loc, ret, stores, faulted, last >>

NoIndex == [loaded |-> FALSE, vecs |-> << >>]
NoFile == [exists |-> FALSE, d |-> IndexDim, ntotal |-> 0, codes |-> << >>]
NoLoc == [inst |-> 1, user_id |-> 1, content |-> << >>,
          memory_type |-> "general", embedding |-> << 0, 0 >>,
          vector_id |-> NULL, saved |-> FALSE]
NoRet == [kind |-> "none", val |-> FALSE, inst |-> 1,
          user_id |-> 1, content |-> << >>, memory_type |-> "general",
          vector_id |-> NULL, added |-> FALSE, saved |-> FALSE,
          wrote |-> FALSE]
NoBundle == [error |-> FALSE, keys |-> {}, failed |-> "none"]
NoCall == [op |-> "none", inst |-> 1, user_id |-> 1, query |-> << >>,
           memory_type |-> "None", top_k |-> 1, kind |-> "none",
           result |-> << >>, bundle |-> NoBundle, faulted |-> FALSE]

Init ==
    /\ built = [i \in Inst |-> FALSE]
    /\ embedding_model = [i \in Inst |-> FALSE]
    /\ faiss_index = [i \in Inst |-> NoIndex]
    /\ disk = NoFile
    /\ memory = << >>
    /\ rows = << >>
    /\ pc = [t \in Thread |-> "idle"]
    /\ loc = [t \in Thread |-> NoLoc]
    /\ ret = [t \in Thread |-> NoRet]
    /\ stores = 0
    /\ faulted = FALSE
    /\ last = NoCall

(* --------------------------- construction ------------------------------ *)
(* faiss.write_index of a flat index: a header (d, ntotal) followed by     *)
(* the components of the vectors, one vector after the other               *)
WriteIndex(vecs) ==
    [exists |-> TRUE, d |-> IndexDim, ntotal |-> Len(vecs),
     codes |-> [n \in 1..(IndexDim * Len(vecs)) |->
                   vecs[((n - 1) \div IndexDim) + 1][((n - 1) % IndexDim) + 1]]]

(* faiss.read_index: ntotal vectors of d components cut from the codes     *)
ReadIndex(file) ==
    [p \in 1..file.ntotal |->
        [c \in 1..file.d |-> file.codes[(p - 1) * file.d + c]]]

(* _save_index: write_index when the index is set; any error is logged.    *)
SaveIndex(idx, file, write_ok) ==
    IF idx.loaded /\ write_ok
    THEN WriteIndex(idx.vecs)
    ELSE file

(* _init_faiss_index that never looks for the file                         *)
InitFaissIndexFresh(file, fs_ok) ==
    IF ~fs_ok THEN NoIndex
    ELSE [loaded |-> TRUE, vecs |-> << >>]

(* _init_faiss_index: load the file if it exists, else create an empty     *)
(* index and save it; any exception leaves faiss_index = None.             *)
InitFaissIndex(file, fs_ok) ==
    IF ~fs_ok THEN NoIndex
    ELSE IF file.exists THEN [loaded |-> TRUE, vecs |-> ReadIndex(file)]
    ELSE [loaded |-> TRUE, vecs |-> << >>]

(* MemoryService.__init__                                                  *)
Construct(i, model_ok, fs_ok, write_ok) ==
    /\ last = NoCall
    /\ ~built[i]
    /\ built' = [built EXCEPT ![i] = TRUE]
    /\ embedding_model' = [embedding_model EXCEPT ![i] = model_ok]
    /\ faiss_index' = [faiss_index EXCEPT ![i] = InitFaissIndex(disk, fs_ok)]
    /\ disk' = IF fs_ok /\ ~disk.exists
               THEN SaveIndex(InitFaissIndex(disk, fs_ok), disk, write_ok)
               ELSE disk
    /\ faulted' = (faulted \/ (fs_ok /\ ~disk.exists /\ ~write_ok))
    /\ UNCHANGED << memory, rows, pc, loc, ret, stores, last >>

(* A domain router creates a career goal, skill, habit or financial goal   *)
(* while the tables hold fewer than n rows.                                *)
InsertRowUpTo(n, tbl, u, text) ==
    /\ last = NoCall
    /\ Len(rows) < n
    /\ rows' = Append(rows, [table |-> tbl, user_id |-> u, text |-> text])
    /\ UNCHANGED << built, embedding_model, faiss_index, disk, memory,
                    pc, loc, ret, stores, faulted, last >>

InsertRow(tbl, u, text) == InsertRowUpTo(MaxRows, tbl, u, text)

(* positions of the row of user u in the users table                      *)
UserRows(u) ==
    { k \in 1..Len(rows) : rows[k].table = "user" /\ rows[k].user_id = u }

(* user.get_preferences(), as get_user_context reads it for its            *)
(* "preferences" section: the preferences column, empty when never set     *)
UserPreferences(u) ==
    IF UserRows(u) = {} THEN << >>
    ELSE rows[CHOOSE k \in UserRows(u) : TRUE].text

(* PUT /users/me with preferences: set_preferences on the user's row       *)
UpdateMe(u, text) ==
    /\ last = NoCall
    /\ IF UserRows(u) = {}
       THEN rows' = Append(rows, [table |-> "user", user_id |-> u,
                                  text |-> text])
       ELSE rows' = [k \in 1..Len(rows) |->
                       IF k \in UserRows(u)
                       THEN [rows[k] EXCEPT !.text = text] ELSE rows[k]]
    /\ UNCHANGED << built, embedding_model, faiss_index, disk, memory,
                    pc, loc, ret, stores, faulted, last >>

(* A usermemory row that was there before the migration added the          *)
(* nullable vector_id column: its vector_id is NULL.                       *)
InsertLegacyMemory(u, text) ==
    /\ last = NoCall
    /\ Len(memory) < MaxLegacy
    /\ memory' = Append(memory,
                        [id |-> Len(memory) + 1, user_id |-> u,
                         content |-> text, memory_type |-> "general",
                         vector_id |-> NULL])
    /\ UNCHANGED << built, embedding_model, faiss_index, disk, rows,
                    pc, loc, ret, stores, faulted, last >>

(* ----------------------------- store_memory ---------------------------- *)
(* _get_embedding: None without a model or when encode raises              *)
GetEmbedding(i, text, encode_ok) ==
    IF ~embedding_model[i] \/ ~encode_ok
    THEN [none |-> TRUE, vec |-> << 0, 0 >>]
    ELSE [none |-> FALSE, vec |-> Encode(text)]

(* `if not self.embedding_model or not self.faiss_index: return False`     *)
StoreAvailable(i) == embedding_model[i] /\ faiss_index[i].loaded

(* a store_memory call that skips both checks and embeds regardless        *)
StoreEntryUnchecked(i, content, encode_ok) ==
    [ok |-> TRUE, embedding |-> Encode(content),
     vector_id |-> Len(faiss_index[i].vecs)]

(* store_memory before the add: the availability check, the embedding      *)
(* (None returns False) and `vector_id = self.faiss_index.ntotal`          *)
StoreEntry(i, content, encode_ok) ==
    LET e == GetEmbedding(i, content, encode_ok)
    IN  IF ~StoreAvailable(i) \/ e.none
        THEN [ok |-> FALSE, embedding |-> << 0, 0 >>, vector_id |-> NULL]
        ELSE [ok |-> TRUE, embedding |-> e.vec,
              vector_id |-> Len(faiss_index[i].vecs)]

(* value a finished store_memory call leaves behind                        *)
Returned(l, v, added, wrote) ==
    [kind |-> "bool", val |-> v, inst |-> l.inst,
     user_id |-> l.user_id, content |-> l.content,
     memory_type |-> l.memory_type, vector_id |-> l.vector_id,
     added |-> added, saved |-> l.saved, wrote |-> wrote]

(* row created by `Memory(user_id=..., content=..., vector_id=...)`        *)
MemoryRow(l) ==
    [id |-> Len(memory) + 1, user_id |-> l.user_id, content |-> l.content,
     memory_type |-> l.memory_type, vector_id |-> l.vector_id]

(* store_memory up to `vector_id = self.faiss_index.ntotal`: availability  *)
(* check, _get_embedding, read of ntotal.  update_user_preferences enters  *)
(* here with memory_type "preferences".                                    *)
StoreBegin(t, i, u, content, mt, encode_ok) ==
    /\ last = NoCall
    /\ pc[t] = "idle"
    /\ built[i]
    /\ stores < MaxStores
    /\ stores' = stores + 1
    /\ LET e == StoreEntry(i, content, encode_ok)
           l == [inst |-> i, user_id |-> u,
                 content |-> content, memory_type |-> mt,
                 embedding |-> e.embedding,
                 vector_id |-> e.vector_id, saved |-> FALSE]
       IN  IF e.ok
           THEN /\ loc' = [loc EXCEPT ![t] = l]
                /\ pc' = [pc EXCEPT ![t] = "add"]
                /\ ret' = ret
           ELSE /\ ret' = [ret EXCEPT ![t] = Returned(l, FALSE, FALSE, FALSE)]
                /\ UNCHANGED << loc, pc >>
    /\ faulted' = (faulted \/ (StoreAvailable(i) /\ ~encode_ok))
    /\ UNCHANGED << built, embedding_model, faiss_index, disk, memory, rows,
                    last >>

(* an add that puts the new vector in place of the index content           *)
StoreAddReplacing(t, add_ok) ==
    /\ last = NoCall
    /\ pc[t] = "add"
    /\ faiss_index[loc[t].inst].loaded
    /\ add_ok
    /\ faiss_index' = [faiss_index EXCEPT ![loc[t].inst].vecs =
                           << loc[t].embedding >>]
    /\ pc' = [pc EXCEPT ![t] = "save"]
    /\ UNCHANGED << built, embedding_model, disk, memory, rows, loc, ret,
                    stores, faulted, last >>

(* `self.faiss_index.add(embedding_reshaped)`; an exception of add is      *)
(* caught by the outer handler, which returns False.                       *)
StoreAdd(t, add_ok) ==
    /\ last = NoCall
    /\ pc[t] = "add"
    /\ LET l == loc[t]
           i == l.inst
       IN  IF faiss_index[i].loaded /\ add_ok
           THEN /\ faiss_index' = [faiss_index EXCEPT ![i].vecs =
                                      Append(@, l.embedding)]
                /\ pc' = [pc EXCEPT ![t] = "save"]
                /\ ret' = ret
           ELSE /\ ret' = [ret EXCEPT ![t] = Returned(l, FALSE, FALSE, FALSE)]
                /\ pc' = [pc EXCEPT ![t] = "idle"]
                /\ faiss_index' = faiss_index
    /\ faulted' = (faulted \/ ~add_ok)
    /\ UNCHANGED << built, embedding_model, disk, memory, rows, loc, stores,
                    last >>

(* `self._save_index()` after the add                                      *)
StoreSave(t, write_ok) ==
    /\ last = NoCall
    /\ pc[t] = "save"
    /\ disk' = SaveIndex(faiss_index[loc[t].inst], disk, write_ok)
    /\ loc' = [loc EXCEPT ![t].saved = write_ok]
    /\ pc' = [pc EXCEPT ![t] = "db"]
    /\ faulted' = (faulted \/ ~write_ok)
    /\ UNCHANGED << built, embedding_model, faiss_index, memory, rows, ret,
                    stores, last >>

(* the database block: import of the model, db.add, db.commit; whatever    *)
(* it raises is logged by the inner handler, and store_memory returns True *)
StoreDb(t, db_ok) ==
    /\ last = NoCall
    /\ pc[t] = "db"
    /\ LET l == loc[t]
           wrote == StoreImportsOK /\ db_ok
       IN  /\ memory' = IF wrote THEN Append(memory, MemoryRow(l)) ELSE memory
           /\ ret' = [ret EXCEPT ![t] = Returned(l, TRUE, TRUE, wrote)]
    /\ pc' = [pc EXCEPT ![t] = "idle"]
    /\ faulted' = (faulted \/ ~db_ok)
    /\ UNCHANGED << built, embedding_model, faiss_index, disk, rows, loc,
                    stores, last >>

(* store_memory called by a router, a task or another service              *)
StoreMemory(t, insts, texts) ==
    \E i \in insts, u \in Users, c \in texts, mt \in StoreTypes,
       encode_ok \in BOOLEAN :
        StoreBegin(t, i, u, c, mt, encode_ok)

(* update_user_preferences when json.dumps raises: the handler returns     *)
(* False and store_memory is never called                                  *)
PreferencesFail(t, i, u) ==
    /\ last = NoCall
    /\ pc[t] = "idle"
    /\ built[i]
    /\ stores < MaxStores
    /\ stores' = stores + 1
    /\ ret' = [ret EXCEPT ![t] =
                  Returned([NoLoc EXCEPT !.inst = i, !.user_id = u,
                                         !.memory_type = "preferences"],
                           FALSE, FALSE, FALSE)]
    /\ faulted' = TRUE
    /\ UNCHANGED << built, embedding_model, faiss_index, disk, memory, rows,
                    pc, loc, last >>

(* update_user_preferences if it wrote the preferences column of the       *)
(* user row                                                                *)
UpdateUserPreferencesOnUserRow(t, insts, texts) ==
    \E i \in insts, u \in Users, c \in texts :
        /\ last = NoCall
        /\ pc[t] = "idle"
        /\ built[i]
        /\ stores < MaxStores
        /\ stores' = stores + 1
        /\ rows' = Append(rows, [table |-> "user", user_id |-> u, text |-> c])
        /\ ret' = [ret EXCEPT ![t] =
                      Returned([NoLoc EXCEPT !.inst = i, !.user_id = u,
                                             !.memory_type = "preferences"],
                               TRUE, FALSE, FALSE)]
        /\ UNCHANGED << built, embedding_model, faiss_index, disk, memory,
                        pc, loc, faulted, last >>

(* update_user_preferences: json.dumps, then store_memory tagged           *)
(* "preferences"; returns what store_memory returned                       *)
UpdateUserPreferences(t, insts, texts) ==
    \/ \E i \in insts, u \in Users, c \in texts, encode_ok \in BOOLEAN :
          StoreBegin(t, i, u, c, "preferences", encode_ok)
    \/ \E i \in insts, u \in Users : PreferencesFail(t, i, u)

(* ------------------------------ queries -------------------------------- *)
Min(a, b) == IF a < b THEN a ELSE b

(* `.limit(n).all()` and `results[:n]`                                     *)
Limit(s, n) == SubSeq(s, 1, Min(n, Len(s)))

(* `results.sort(key=score, reverse=True)`: stable, highest score first    *)
RECURSIVE InsertByScore(_, _)
InsertByScore(s, x) ==
    IF s = << >> THEN << x >>
    ELSE IF s[Len(s)].score >= x.score THEN Append(s, x)
    ELSE Append(InsertByScore(SubSeq(s, 1, Len(s) - 1), x), s[Len(s)])

RECURSIVE SortByScore(_)
SortByScore(s) ==
    IF s = << >> THEN << >>
    ELSE InsertByScore(SortByScore(SubSeq(s, 1, Len(s) - 1)), s[Len(s)])

(* one entry of a result list; owner is the user_id of the row it is       *)
(* built from                                                              *)
Hit(score, content, mtype, owner, src) ==
    [score |-> score, content |-> content, memory_type |-> mtype,
     owner |-> owner, src |-> src]

(* `for g in goals: results.append({...})` over rows of a domain table     *)
RowHits(found, score, mtype, tbl) ==
    [k \in 1..Len(found) |->
        Hit(score, found[k].text, mtype, found[k].user_id, tbl)]

(* the same query with the `T.user_id == user_id` filter left out         *)
DomainHitsAnyUser(tbl, u, q, n, score, mtype) ==
    LET Test(r) == r.table = tbl /\ ILike(r.text, q)
    IN  RowHits(Limit(SelectSeq(rows, Test), n), score, mtype, tbl)

(* db.query(T).filter(T.user_id == user_id, T.<text>.ilike(%q%)).limit(n)  *)
(* on a domain table, turned into results of the given score               *)
DomainHits(tbl, u, q, n, score, mtype) ==
    LET Test(r) == r.table = tbl /\ r.user_id = u /\ ILike(r.text, q)
    IN  RowHits(Limit(SelectSeq(rows, Test), n), score, mtype, tbl)

(* `for m in mems: results.append({...})`, score 0.95                      *)
RecordHits(found) ==
    [k \in 1..Len(found) |->
        Hit(95, found[k].content, found[k].memory_type,
            found[k].user_id, "memory")]

(* db.query(Memory).filter(Memory.user_id == user_id,                      *)
(*                         Memory.content.ilike(%q%)).limit(n)             *)
MemoryHits(u, q, n) ==
    LET Test(m) == m.user_id = u /\ ILike(m.content, q)
    IN  RecordHits(Limit(SelectSeq(memory, Test), n))

Raise == [raised |-> TRUE, val |-> << >>]
Value(v) == [raised |-> FALSE, val |-> v]

(* the `if memory_type:` branch of search_memories                         *)
TargetedSearch(u, q, mt, k) ==
    IF mt = "career"
    THEN Value(DomainHits("careergoal", u, q, k, 90, "career")
               \o DomainHits("skill", u, q, k, 85, "career_skill"))
    ELSE IF mt = "habits"
    THEN Value(DomainHits("habit", u, q, k, 90, "habits"))
    ELSE IF mt = "finance"
    THEN IF "name" \in FinancialGoalColumns
         THEN Value(DomainHits("financialgoal", u, q, k, 90, "finance")
                    \o DomainHits("expense", u, q, k, 85, "finance_expense"))
         ELSE Raise
    ELSE Value(<< >>)

(* `if len(results) < top_k:` career goals for the remaining slots         *)
WithCareerGoals(u, q, k, r) ==
    IF Len(r) < k
    THEN r \o DomainHits("careergoal", u, q, k - Len(r), 90, "career")
    ELSE r

(* the habits query limited to top_k instead of the remaining slots        *)
WithHabitsFullLimit(u, q, k, r) ==
    IF k - Len(r) > 0
    THEN r \o DomainHits("habit", u, q, k, 85, "habits")
    ELSE r

(* `remaining = top_k - len(results); if remaining > 0:` habits            *)
WithHabits(u, q, k, r) ==
    IF k - Len(r) > 0
    THEN r \o DomainHits("habit", u, q, k - Len(r), 85, "habits")
    ELSE r

(* `remaining = top_k - len(results); if remaining > 0:` financial goals,  *)
(* filtered on FinancialGoal.name                                          *)
WithFinancialGoals(u, q, k, r) ==
    IF k - Len(r) > 0
    THEN IF "name" \in FinancialGoalColumns
         THEN Value(r \o DomainHits("financialgoal", u, q, k - Len(r),
                                    80, "finance"))
         ELSE Raise
    ELSE Value(r)

(* the `else:` branch: Memory table first, then career goals, habits and   *)
(* financial goals for the slots that remain (the Memory query is limited  *)
(* to top_k, so the later tiers are skipped exactly when none remain)      *)
GeneralSearch(u, q, k) ==
    WithFinancialGoals(u, q, k,
        WithHabits(u, q, k,
            WithCareerGoals(u, q, k, MemoryHits(u, q, k))))

(* the sort without the `[:top_k]`                                         *)
SortTopUntruncated(b, k) ==
    IF b.raised THEN Raise ELSE Value(SortByScore(b.val))

(* `results.sort(key=score, reverse=True); return results[:top_k]`         *)
SortTop(b, k) ==
    IF b.raised THEN Raise ELSE Value(Limit(SortByScore(b.val), k))

(* the try block of search_memories as it would run if every import at    *)
(* its top resolved                                                        *)
SearchBodyResolved(u, q, mt, k, db_ok) ==
    IF ~db_ok THEN Raise
    ELSE SortTop(IF mt /= "None" THEN TargetedSearch(u, q, mt, k)
                 ELSE GeneralSearch(u, q, k), k)

(* body of the try block of search_memories                                *)
SearchBody(u, q, mt, k, db_ok) ==
    IF ~SearchImportsOK \/ ~db_ok THEN Raise
    ELSE SortTop(IF mt /= "None" THEN TargetedSearch(u, q, mt, k)
                 ELSE GeneralSearch(u, q, k), k)

(* what a call hands to its caller: a value of some kind, or an exception  *)
Return(kind, v) == [kind |-> kind, val |-> v]
Propagate == [kind |-> "raised", val |-> << >>]

(* a try block whose handler is missing: the exception reaches the caller  *)
Reraise(b) == IF b.raised THEN Propagate ELSE Return("list", b.val)

(* `try: ... except Exception: return <alt>`                               *)
OrElse(b, alt) == IF b.raised THEN alt ELSE Return("list", b.val)

(* search_memories without its handler                                     *)
search_memories_reraise(u, q, mt, k, db_ok) ==
    Reraise(SearchBody(u, q, mt, k, db_ok))

(* search_memories: `except Exception: return []`                          *)
search_memories(u, q, mt, k, db_ok) ==
    OrElse(SearchBody(u, q, mt, k, db_ok), Return("list", << >>))

(* --------------------------- semantic_search --------------------------- *)
Scored(vecs, qv) ==
    [p \in 1..Len(vecs) |->
        [idx |-> p - 1, score |-> InnerProduct(vecs[p], qv)]]

Padded(best, k) ==
    [n \in 1..k |-> IF n <= Len(best) THEN best[n]
                    ELSE [idx |-> -1, score |-> 0]]

(* faiss IndexFlatIP.search(query, k): the k positions of highest inner    *)
(* product, best first, ties by position; -1 pads a short answer           *)
FaissSearch(vecs, qv, k) ==
    Padded(Limit(SortByScore(Scored(vecs, qv)), k), k)

(* db.query(Memory).filter(Memory.user_id == user_id,                      *)
(*                         Memory.vector_id == idx).first()                *)
MemoryByVector(u, idx) ==
    LET Test(m) == m.user_id = u /\ m.vector_id = idx
    IN  Limit(SelectSeq(memory, Test), 1)

(* one turn of the loop over indices[0]: `if idx < 0: continue`,           *)
(* `if mem: results.append({...})`                                         *)
AppendFound(before, f, m) ==
    IF f.idx < 0 \/ m = << >> THEN before
    ELSE Append(before, Hit(f.score, m[1].content, m[1].memory_type,
                            m[1].user_id, "faiss"))

(* the loop over indices[0]                                                *)
RECURSIVE SemanticHits(_, _)
SemanticHits(u, found) ==
    IF found = << >> THEN << >>
    ELSE AppendFound(SemanticHits(u, SubSeq(found, 1, Len(found) - 1)),
                     found[Len(found)],
                     MemoryByVector(u, found[Len(found)].idx))

(* what can raise inside semantic_search: encode (absorbed by              *)
(* _get_embedding), faiss_index.search, the database session               *)
SemanticFaults == { "none", "encode", "faiss", "session" }

(* the merge without the sort: semantic hits first, keyword hits after     *)
MergedSemanticFirst(sem, kw, k) ==
    IF kw.kind = "raised" THEN Raise
    ELSE Value(Limit(sem \o kw.val, k))

(* `results.extend(keyword_results)`, sort, `results[:top_k]`              *)
Merged(sem, kw, k) ==
    IF kw.kind = "raised" THEN Raise
    ELSE Value(Limit(SortByScore(sem \o kw.val), k))

(* `if len(results) < top_k:` supplement with search_memories for the      *)
(* slots that remain                                                       *)
Supplemented(sem, u, q, mt, k, kw_ok) ==
    Merged(sem,
           IF Len(sem) < k
           THEN search_memories(u, q, mt, k - Len(sem), kw_ok)
           ELSE Return("list", << >>),
           k)

(* a semantic path that answers from the index alone: every position the   *)
(* index returns becomes a result, no record is looked up                  *)
SemanticBodyFromIndex(i, u, q, mt, k, fault, kw_ok) ==
    IF ~embedding_model[i] \/ ~faiss_index[i].loaded
       \/ GetEmbedding(i, q, fault /= "encode").none
    THEN Raise
    ELSE LET Real(f) == f.idx >= 0
             found == SelectSeq(FaissSearch(faiss_index[i].vecs,
                                            Encode(q), k), Real)
         IN  Value([n \in 1..Len(found) |->
                       Hit(found[n].score, << >>, "general", u, "faiss")])

(* body of the try block of semantic_search: the availability check and    *)
(* a None embedding leave through search_memories, as the handler does     *)
SemanticBody(i, u, q, mt, k, fault, kw_ok) ==
    IF ~embedding_model[i] \/ ~faiss_index[i].loaded
       \/ GetEmbedding(i, q, fault /= "encode").none
    THEN Raise
    ELSE IF fault = "faiss" \/ ~SemanticImportsOK \/ fault = "session"
    THEN Raise
    ELSE Supplemented(SemanticHits(u, FaissSearch(faiss_index[i].vecs,
                                                  Encode(q), k)),
                      u, q, mt, k, kw_ok)

(* semantic_search: keyword search when the model or the index is not      *)
(* ready, when the query cannot be embedded, and in the except handler     *)
semantic_search(i, u, q, mt, k, fault, kw_ok) ==
    OrElse(SemanticBody(i, u, q, mt, k, fault, kw_ok),
           search_memories(u, q, mt, k, kw_ok))

(* --------------------------- get_user_context -------------------------- *)
ContextKeys ==
    { "user_id", "context_type", "timestamp", "recent_activities",
      "preferences", "goals", "habits", "mood_trends", "financial_status",
      "career_progress" }

ErrorKeys == { "user_id", "error" }

(* the sub-fetch of get_user_context that raises first, "none" if none:    *)
(* the session, the career goals read, UserSkill.proficiency_level, the    *)
(* habits read, the finance read, MoodLog.timestamp                        *)
ContextFailure(ctype, db_ok, career_ok, habits_ok, finance_ok) ==
    IF ~db_ok THEN "session"
    ELSE IF ctype \in {"career", "general"} /\ ~career_ok THEN "career_goals"
    ELSE IF ctype \in {"career", "general"}
            /\ "proficiency_level" \notin SkillColumns THEN "skills"
    ELSE IF ctype \in {"habits", "general"} /\ ~habits_ok THEN "habits"
    ELSE IF ctype \in {"finance", "general"} /\ ~finance_ok THEN "finance"
    ELSE IF "timestamp" \notin MoodLogColumns THEN "mood"
    ELSE "none"

(* get_user_context: one try block around every read; the handler returns  *)
(* {"user_id": ..., "error": ...}                                          *)
get_user_context(u, ctype, db_ok, career_ok, habits_ok, finance_ok) ==
    LET f == ContextFailure(ctype, db_ok, career_ok, habits_ok, finance_ok)
    IN  IF f /= "none"
        THEN Return("dict", [error |-> TRUE, keys |-> ErrorKeys,
                             failed |-> f])
        ELSE Return("dict", [error |-> FALSE,
                             keys |-> IF ctype \in {"habits", "general"}
                                      THEN ContextKeys \cup {"habit_streaks"}
                                      ELSE ContextKeys,
                             failed |-> f])

(* ------------------------ callers of the service ----------------------- *)
(* the memory block of career_advisor / finance_tips without its           *)
(* try/except                                                              *)
AdvisorMemoryUnguarded(ms_raises, r) ==
    IF ms_raises \/ r.kind = "raised" THEN Propagate
    ELSE Return("context", r.val)

(* the memory block of career_advisor / finance_tips: MemoryService(),     *)
(* semantic_search, and `except Exception` leaving memory_context empty    *)
AdvisorMemory(ms_raises, r) ==
    IF ms_raises \/ r.kind = "raised" THEN Return("context", << >>)
    ELSE Return("context", r.val)

AiStates == { "none", "unavailable", "llm" }

(* career_advisor / finance_tips around the memory block: the fallback     *)
(* response when the AI service is not available and when anything in the *)
(* outer try block raises, else the advice of the LLM                      *)
Advise(ai, m) ==
    IF ai = "unavailable" THEN Return("fallback", << >>)
    ELSE IF m.kind = "raised" \/ ai = "llm" THEN Return("fallback", << >>)
    ELSE Return("advice", m.val)

(* AIService.career_advisor with a user_id: semantic_search(user_id,        *)
(* question, "career", top_k)                                              *)
career_advisor(i, u, q, ai, ms_raises, fault, kw_ok) ==
    Advise(ai, AdvisorMemory(ms_raises,
                   semantic_search(i, u, q, "career", MaxTopK, fault, kw_ok)))

(* AIService.finance_tips with a user_id                                   *)
finance_tips(i, u, q, ai, ms_raises, fault, kw_ok) ==
    Advise(ai, AdvisorMemory(ms_raises,
                   semantic_search(i, u, q, "finance", MaxTopK, fault, kw_ok)))

(* generate_roadmap, "Merge memory context": {} without a memory service   *)
(* and when the call raises, else what get_user_context returned           *)
RoadmapMemory(ms_none, ctx_raises, c) ==
    IF ms_none \/ ctx_raises \/ c.kind = "raised" THEN NoBundle
    ELSE c.val

(* CareerService.generate_roadmap: a list of milestones from the AI, or    *)
(* one of the fallback lists                                               *)
generate_roadmap(u, ms_none, ctx_raises, db_ok, career_ok, ai) ==
    Return(IF ai = "unavailable" THEN "roadmap_fallback"
           ELSE IF ai = "llm" THEN "roadmap_error"
           ELSE "roadmap",
           RoadmapMemory(ms_none, ctx_raises,
                         get_user_context(u, "career", db_ok, career_ok,
                                          TRUE, TRUE)))

(* --------------------------- replies of the LLM ------------------------ *)
(* A reply is a text of tokens: "m" a JSON object without arrays inside,   *)
(* "[" and "]" the brackets of a JSON array (commas left out), "x" prose,  *)
(* "J" the opening fence ```json, "f" the closing fence ```.               *)
ReplyTokens == { "[", "]", "m", "x", "J", "f" }

Replies == UNION { [1..n -> ReplyTokens] : n \in 0..MaxReply }

(* Python's None for a text or a parsed value                              *)
None == << >>

(* the texts json.loads accepts: an object, or an array of values          *)
RECURSIVE IsJsonValue(_), IsJsonValues(_)
IsJsonValue(t) ==
    \/ t = << "m" >>
    \/ /\ Len(t) >= 2
       /\ t[1] = "["
       /\ t[Len(t)] = "]"
       /\ IsJsonValues(SubSeq(t, 2, Len(t) - 1))

IsJsonValues(s) ==
    \/ s = << >>
    \/ \E n \in 1..Len(s) :
          /\ IsJsonValue(SubSeq(s, 1, n))
          /\ IsJsonValues(SubSeq(s, n + 1, Len(s)))

(* json.loads inside `try: ... except Exception: pass`: the value, kept as *)
(* its text, or None                                                       *)
JsonLoads(t) == IF IsJsonValue(t) THEN t ELSE None

IsList(v) == v /= None /\ v[1] = "["

(* the elements of a parsed array, one text each                           *)
RECURSIVE Items(_)
Items(s) ==
    IF s = << >> THEN << >>
    ELSE LET n == CHOOSE n \in 1..Len(s) :
                     /\ IsJsonValue(SubSeq(s, 1, n))
                     /\ IsJsonValues(SubSeq(s, n + 1, Len(s)))
         IN  << SubSeq(s, 1, n) >> \o Items(SubSeq(s, n + 1, Len(s)))

(* the Python list a parsed array is: milestones or tasks for objects      *)
ListOf(v, u) ==
    LET items == Items(SubSeq(v, 2, Len(v) - 1))
    IN  [k \in 1..Len(items) |->
            Hit(0, items[k], IF items[k] = << "m" >> THEN "object"
                              ELSE "other", u, "llm")]

(* a list of one object built by the code itself: "fallback", "wrapper",   *)
(* "no_reply" or "error"                                                   *)
OneObject(u, what) == << Hit(0, << "m" >>, "object", u, what) >>

(* re.search(r"```json\s*(\{[\s\S]*?\}|\[[\s\S]*?\])\s*```"): ends of the    *)
(* group for a match that starts at the fence at p; the closing ``` may    *)
(* be the start of another ```json                                         *)
FenceEnds(t, p) ==
    { e \in (p + 1)..(Len(t) - 1) :
        /\ t[e + 1] \in { "f", "J" }
        /\ \/ t[p + 1] = "m" /\ t[e] = "m"
           \/ t[p + 1] = "[" /\ t[e] = "]" }

FenceStarts(t) ==
    { p \in 1..Len(t) : t[p] = "J" /\ FenceEnds(t, p) /= {} }

Least(S) == CHOOSE n \in S : \A m \in S : n <= m
Greatest(S) == CHOOSE n \in S : \A m \in S : m <= n

(* group 1 of the leftmost match, the shortest one there; None if none     *)
Fenced(t) ==
    IF FenceStarts(t) = {} THEN None
    ELSE SubSeq(t, Least(FenceStarts(t)) + 1,
                Least(FenceEnds(t, Least(FenceStarts(t)))))

(* re.search(r"(\{[\s\S]*\}|\[[\s\S]*\])"): positions where a match can    *)
(* start, and the token that ends it                                       *)
BraceStarts(t) ==
    { p \in 1..Len(t) :
        \/ t[p] = "m"
        \/ t[p] = "[" /\ \E e \in (p + 1)..Len(t) : t[e] = "]" }

Closer(c) == IF c = "m" THEN "m" ELSE "]"

(* group 1 of the leftmost match, the longest one there; None if none      *)
Braced(t) ==
    IF BraceStarts(t) = {} THEN None
    ELSE SubSeq(t, Least(BraceStarts(t)),
                Greatest({ e \in Least(BraceStarts(t))..Len(t) :
                             t[e] = Closer(t[Least(BraceStarts(t))]) }))

(* the second and third attempt of _parse_json_from_text                   *)
ParseInside(t) ==
    IF JsonLoads(Fenced(t)) /= None THEN JsonLoads(Fenced(t))
    ELSE JsonLoads(Braced(t))

(* CareerService._parse_json_from_text: the text itself, the block in a    *)
(* ```json fence, the first JSON-like substring                            *)
ParseJsonFromText(t) ==
    IF t = None THEN None
    ELSE IF JsonLoads(t) /= None THEN JsonLoads(t)
    ELSE ParseInside(t)

(* what career_advisor handed back: a dict with a string in it, a string,  *)
(* or something else                                                       *)
ReplyTypes == { "dict", "str", "other" }

(* `ai_result.get("advice") or next(<str values>, None)` for a dict, the   *)
(* string itself for a string, else None                                   *)
AdviceText(type, t) == IF type = "other" THEN None ELSE t

(* the end of the AI path of generate_roadmap: the parsed list, else the   *)
(* advice wrapped as one milestone, else the "Plan your career" milestone  *)
RoadmapFromParsed(advice, parsed, u) ==
    IF IsList(parsed) THEN Return("list", ListOf(parsed, u))
    ELSE IF advice /= None THEN Return("list", OneObject(u, "wrapper"))
    ELSE Return("list", OneObject(u, "no_reply"))

RoadmapFromAdvice(advice, u) ==
    RoadmapFromParsed(advice, ParseJsonFromText(advice), u)

(* the request body: absent, {}, with "education" a dict, with             *)
(* "education" a string                                                    *)
Payloads == { "none", "empty", "education_dict", "education_text" }

(* generate_roadmap after the context is built: the options read from the  *)
(* payload (`edu = opts.get("education") or {}; edu.get("level")`, outside *)
(* any try), the fallback when ai_service is None, the AI path and its     *)
(* handler                                                                 *)
RoadmapResponse(payload, ai, type, t, u) ==
    IF payload = "education_text" THEN Propagate
    ELSE IF ai = "unavailable" THEN Return("list", OneObject(u, "fallback"))
    ELSE IF ai = "llm" THEN Return("list", OneObject(u, "error"))
    ELSE RoadmapFromAdvice(AdviceText(type, t), u)

(* the inner try of generate_tasks_for_goal: json.loads, the list if it    *)
(* is one; the wrapper if json.loads raised; and no return statement for   *)
(* a parsed value that is not a list, so the function ends and gives None  *)
TasksFromParsed(parsed, u) ==
    IF parsed = None THEN Return("list", OneObject(u, "wrapper"))
    ELSE IF IsList(parsed) THEN Return("list", ListOf(parsed, u))
    ELSE Return("None", << >>)

(* AIService.generate_tasks_for_goal: the fallback without an LLM, for an  *)
(* empty result and when the call raises                                   *)
generate_tasks_for_goal(llm, t, u) ==
    IF llm = "unavailable" \/ llm = "llm" \/ t = None
    THEN Return("list", OneObject(u, "fallback"))
    ELSE TasksFromParsed(JsonLoads(t), u)

(* ------------------------------- actions ------------------------------- *)
(* A search or context call runs to its return in one step and leaves its  *)
(* arguments and result in `last`; the caller takes the result (Deliver)   *)
(* before the next step, so `last` is read against the state of the call.  *)
Deliver ==
    /\ last /= NoCall
    /\ last' = NoCall
    /\ UNCHANGED << built, embedding_model, faiss_index, disk, memory, rows,
                    pc, loc, ret, stores, faulted >>

SearchMemories(i, u, q, mt, k, db_ok) ==
    /\ last = NoCall
    /\ built[i]
    /\ LET r == search_memories(u, q, mt, k, db_ok)
       IN  last' = [op |-> "search_memories", inst |-> i, user_id |-> u,
                    query |-> q, memory_type |-> mt, top_k |-> k,
                    kind |-> r.kind, result |-> r.val, bundle |-> NoBundle,
                    faulted |-> ~db_ok]
    /\ UNCHANGED << built, embedding_model, faiss_index, disk, memory, rows,
                    pc, loc, ret, stores, faulted >>

SemanticSearch(i, u, q, mt, k, fault, kw_ok) ==
    /\ last = NoCall
    /\ built[i]
    /\ LET r == semantic_search(i, u, q, mt, k, fault, kw_ok)
       IN  last' = [op |-> "semantic_search", inst |-> i, user_id |-> u,
                    query |-> q, memory_type |-> mt, top_k |-> k,
                    kind |-> r.kind, result |-> r.val, bundle |-> NoBundle,
                    faulted |-> (fault /= "none" \/ ~kw_ok)]
    /\ UNCHANGED << built, embedding_model, faiss_index, disk, memory, rows,
                    pc, loc, ret, stores, faulted >>

GetUserContext(i, u, ctype, db_ok, career_ok, habits_ok, finance_ok) ==
    /\ last = NoCall
    /\ built[i]
    /\ LET r == get_user_context(u, ctype, db_ok, career_ok, habits_ok,
                                 finance_ok)
       IN  last' = [op |-> "get_user_context", inst |-> i, user_id |-> u,
                    query |-> << >>, memory_type |-> ctype, top_k |-> 1,
                    kind |-> r.kind, result |-> << >>, bundle |-> r.val,
                    faulted |-> ~(db_ok /\ career_ok /\ habits_ok
                                  /\ finance_ok)]
    /\ UNCHANGED << built, embedding_model, faiss_index, disk, memory, rows,
                    pc, loc, ret, stores, faulted >>

(* a career_advisor or finance_tips request; bundle.failed keeps what was  *)
(* wrong with the AI side, faulted whether MemoryService() raised          *)
AdvisorCall(op, i, u, q, ai, ms_raises, fault, kw_ok) ==
    /\ last = NoCall
    /\ built[i]
    /\ LET r == IF op = "career_advisor"
                THEN career_advisor(i, u, q, ai, ms_raises, fault, kw_ok)
                ELSE finance_tips(i, u, q, ai, ms_raises, fault, kw_ok)
       IN  last' = [op |-> op, inst |-> i, user_id |-> u, query |-> q,
                    memory_type |-> "None", top_k |-> MaxTopK,
                    kind |-> r.kind, result |-> r.val,
                    bundle |-> [NoBundle EXCEPT !.failed = ai],
                    faulted |-> ms_raises]
    /\ UNCHANGED << built, embedding_model, faiss_index, disk, memory, rows,
                    pc, loc, ret, stores, faulted >>

(* a generate_roadmap request                                              *)
RoadmapCall(i, u, ms_none, ctx_raises, db_ok, career_ok, ai) ==
    /\ last = NoCall
    /\ built[i]
    /\ LET r == generate_roadmap(u, ms_none, ctx_raises, db_ok, career_ok, ai)
       IN  last' = [op |-> "generate_roadmap", inst |-> i, user_id |-> u,
                    query |-> << >>, memory_type |-> "career", top_k |-> 1,
                    kind |-> r.kind, result |-> << >>, bundle |-> r.val,
                    faulted |-> (ms_none \/ ctx_raises)]
    /\ UNCHANGED << built, embedding_model, faiss_index, disk, memory, rows,
                    pc, loc, ret, stores, faulted >>

(* a generate_roadmap request: query keeps the reply of the LLM,            *)
(* memory_type its type, bundle.keys the payload, bundle.failed the state  *)
(* of the AI side                                                          *)
RoadmapRequest(u, payload, ai, type, t) ==
    /\ last = NoCall
    /\ LET r == RoadmapResponse(payload, ai, type, t, u)
       IN  last' = [op |-> "roadmap", inst |-> 1, user_id |-> u,
                    query |-> t, memory_type |-> type, top_k |-> 1,
                    kind |-> r.kind, result |-> r.val,
                    bundle |-> [error |-> FALSE, keys |-> { payload },
                                failed |-> ai],
                    faulted |-> (payload = "education_text")]
    /\ UNCHANGED << built, embedding_model, faiss_index, disk, memory, rows,
                    pc, loc, ret, stores, faulted >>

(* a generate_tasks_for_goal call                                          *)
TasksRequest(u, llm, t) ==
    /\ last = NoCall
    /\ LET r == generate_tasks_for_goal(llm, t, u)
       IN  last' = [op |-> "generate_tasks_for_goal", inst |-> 1,
                    user_id |-> u, query |-> t, memory_type |-> "str",
                    top_k |-> 1, kind |-> r.kind, result |-> r.val,
                    bundle |-> [NoBundle EXCEPT !.failed = llm],
                    faulted |-> (llm = "llm")]
    /\ UNCHANGED << built, embedding_model, faiss_index, disk, memory, rows,
                    pc, loc, ret, stores, faulted >>

Construction ==
    \E i \in Inst, model_ok, fs_ok, write_ok \in BOOLEAN :
        Construct(i, model_ok, fs_ok, write_ok)

Insertion ==
    \E tbl \in InsertTables, u \in Users, text \in RowTexts :
        InsertRow(tbl, u, text)

(* the steps of a store_memory call that thread t has begun                *)
StoreStep(t) ==
    \/ \E add_ok \in BOOLEAN : StoreAdd(t, add_ok)
    \/ \E write_ok \in BOOLEAN : StoreSave(t, write_ok)
    \/ \E db_ok \in BOOLEAN : StoreDb(t, db_ok)

Searching ==
    \/ \E i \in Inst, u \in Users, q \in Queries, mt \in SearchTypes,
          k \in TopKs, db_ok \in BOOLEAN :
          SearchMemories(i, u, q, mt, k, db_ok)
    \/ \E i \in Inst, u \in Users, q \in Queries, mt \in SearchTypes,
          k \in TopKs, fault \in SemanticFaults, kw_ok \in BOOLEAN :
          SemanticSearch(i, u, q, mt, k, fault, kw_ok)

Context ==
    \E i \in Inst, u \in Users, ctype \in ContextTypes,
       db_ok, career_ok, habits_ok, finance_ok \in BOOLEAN :
        GetUserContext(i, u, ctype, db_ok, career_ok, habits_ok, finance_ok)

(* the whole service: any thread stores on any service, anyone searches    *)
Next ==
    \/ Construction
    \/ Insertion
    \/ \E t \in Thread : StoreMemory(t, Inst, Contents)
    \/ \E t \in Thread : UpdateUserPreferences(t, Inst, Contents)
    \/ \E t \in Thread : StoreStep(t)
    \/ Searching
    \/ Context
    \/ Deliver

Spec == Init /\ [][Next]_vars

(* the write path alone: concurrent store_memory calls on the services     *)
NextStore ==
    \/ Construction
    \/ \E t \in Thread : StoreMemory(t, Inst, Contents)
    \/ \E t \in Thread : UpdateUserPreferences(t, Inst, Contents)
    \/ \E t \in Thread : StoreStep(t)

SpecStore == Init /\ [][NextStore]_vars

(* the read path: searches on every service while one thread stores one   *)
(* text through the writer service                                         *)
NextSearch ==
    \/ Construction
    \/ Insertion
    \/ StoreMemory(1, {1}, RowTexts)
    \/ StoreStep(1)
    \/ Searching
    \/ Deliver

SpecSearch == Init /\ [][NextSearch]_vars

(* every operation of one service, called by one thread                    *)
NextCalls ==
    \/ \E model_ok, fs_ok, write_ok \in BOOLEAN :
          Construct(1, model_ok, fs_ok, write_ok)
    \/ Insertion
    \/ StoreMemory(1, {1}, RowTexts)
    \/ UpdateUserPreferences(1, {1}, RowTexts)
    \/ StoreStep(1)
    \/ Searching
    \/ Context
    \/ Deliver

SpecCalls == Init /\ [][NextCalls]_vars

(* the keyword queries on fuller tables: one service, rows of three        *)
(* domain tables, a memory row without vector_id, every search             *)
NextQuery ==
    \/ \E model_ok, fs_ok, write_ok \in BOOLEAN :
          Construct(1, model_ok, fs_ok, write_ok)
    \/ \E tbl \in QueryTables, u \in Users, text \in RowTexts :
          InsertRowUpTo(MaxQueryRows, tbl, u, text)
    \/ \E u \in Users, text \in RowTexts : InsertLegacyMemory(u, text)
    \/ Searching
    \/ Deliver

SpecQuery == Init /\ [][NextQuery]_vars

(* index generations: one thread stores through either service, each      *)
(* service with the index it loaded or created, and semantic searches run  *)
(* on both                                                                 *)
NextRebuild ==
    \/ Construction
    \/ StoreMemory(1, Inst, RowTexts)
    \/ StoreStep(1)
    \/ \E i \in Inst, u \in Users, q \in Queries, k \in TopKs,
          fault \in SemanticFaults, kw_ok \in BOOLEAN :
          SemanticSearch(i, u, q, "None", k, fault, kw_ok)
    \/ Deliver

SpecRebuild == Init /\ [][NextRebuild]_vars

(* the searches the clients of a long-lived process keep sending           *)
LiveSearch ==
    \E i \in Inst, u \in Users, q \in Queries :
        SemanticSearch(i, u, q, "None", MaxTopK, "none", TRUE)

(* long-lived processes: each service is built once and keeps the index   *)
(* it loaded or created; a store_memory call that has begun runs to its    *)
(* end, and searches keep coming and are answered                          *)
NextLive ==
    \/ Construction
    \/ StoreMemory(1, Inst, Contents)
    \/ StoreStep(1)
    \/ LiveSearch
    \/ Deliver

SpecLive ==
    /\ Init
    /\ [][NextLive]_vars
    /\ WF_vars(StoreStep(1))
    /\ WF_vars(LiveSearch)
    /\ WF_vars(Deliver)

(* the services that turn a reply of the LLM into a list                   *)
RoadmapRequests ==
    /\ last = NoCall
    /\ \E payload \in Payloads, ai \in AiStates, type \in ReplyTypes,
          t \in Replies :
          RoadmapRequest(1, payload, ai, type, t)

TasksRequests ==
    /\ last = NoCall
    /\ \E llm \in AiStates, t \in Replies : TasksRequest(1, llm, t)

NextReplies ==
    \/ RoadmapRequests
    \/ TasksRequests
    \/ Deliver

SpecReplies == Init /\ [][NextReplies]_vars

(* keyword searches over career rows of different titles, inserted one    *)
(* after the other                                                         *)
NextOrder ==
    \/ \E model_ok, fs_ok, write_ok \in BOOLEAN :
          Construct(1, model_ok, fs_ok, write_ok)
    \/ \E tbl \in { "careergoal", "skill" }, u \in Users,
          text \in Contents :
          InsertRowUpTo(MaxQueryRows, tbl, u, text)
    \/ Searching
    \/ Deliver

SpecOrder == Init /\ [][NextOrder]_vars

(* preference updates through the memory service next to profile updates  *)
(* that set the preferences column of the user row                         *)
NextPreferences ==
    \/ \E i \in Inst, model_ok, fs_ok, write_ok \in BOOLEAN :
          Construct(i, model_ok, fs_ok, write_ok)
    \/ \E u \in Users, text \in Contents : UpdateMe(u, text)
    \/ UpdateUserPreferences(1, Inst, Contents)
    \/ StoreStep(1)

SpecPreferences == Init /\ [][NextPreferences]_vars

(* the callers of the memory service: advisor and roadmap requests on the  *)
(* services, over tables with a career goal                                *)
NextCallers ==
    \/ Construction
    \/ Insertion
    \/ \E op \in { "career_advisor", "finance_tips" }, i \in Inst,
          u \in Users, q \in Queries, ai \in AiStates,
          ms_raises \in BOOLEAN, fault \in SemanticFaults,
          kw_ok \in BOOLEAN :
          AdvisorCall(op, i, u, q, ai, ms_raises, fault, kw_ok)
    \/ \E i \in Inst, u \in Users, ms_none, ctx_raises, db_ok,
          career_ok \in BOOLEAN, ai \in AiStates :
          RoadmapCall(i, u, ms_none, ctx_raises, db_ok, career_ok, ai)
    \/ Deliver

SpecCallers == Init /\ [][NextCallers]_vars

(* =========================== properties =============================== *)
Searched == last.op \in { "search_memories", "semantic_search" }

(* thread t's last store_memory call ran without any injected failure and  *)
(* returned True                                                           *)
Stored(t) == ret[t].kind = "bool" /\ ret[t].val /\ ~faulted

Holds(result, content) ==
    \E n \in DOMAIN result : result[n].content = content

(* C1: ownership isolation.  Whatever was stored or inserted, a result     *)
(* list handed to user B holds no entry built from a row of another user;  *)
(* and the keyword queries and the semantic lookup, run for any user,      *)
(* query, memory_type and top_k on the current tables, yield rows of that  *)
(* user only.                                                              *)
C1_OwnershipIsolation ==
    /\ Searched =>
         \A n \in DOMAIN last.result : last.result[n].owner = last.user_id
    /\ \A u \in Users, q \in Queries, k \in TopKs :
         /\ \A mt \in SearchTypes :
               LET b == IF mt /= "None" THEN TargetedSearch(u, q, mt, k)
                        ELSE GeneralSearch(u, q, k)
               IN  \A n \in DOMAIN b.val : b.val[n].owner = u
         /\ \A i \in Inst :
               LET sem == SemanticHits(u, FaissSearch(faiss_index[i].vecs,
                                                      Encode(q), k))
               IN  \A n \in DOMAIN sem : sem[n].owner = u

(* a search by one user while another user owns a stored text and a        *)
(* domain row that both match the query                                    *)
C1_Witness ==
    /\ Searched
    /\ last.query /= << >>
    /\ ret[1].kind = "bool" /\ ret[1].val
    /\ ret[1].user_id /= last.user_id
    /\ ILike(ret[1].content, last.query)
    /\ \E n \in DOMAIN rows :
         rows[n].user_id /= last.user_id /\ ILike(rows[n].text, last.query)

(* C2: write-then-find.  After store_memory(u, content, "career") has      *)
(* returned True with nothing failing, a search by u (either method, no    *)
(* memory_type, nothing failing) whose non-empty query is a substring of   *)
(* the content returns an entry with that content.                         *)
C2_WriteThenFind ==
    ( /\ Stored(1)
      /\ Searched
      /\ ~last.faulted
      /\ last.user_id = ret[1].user_id
      /\ last.memory_type = "None"
      /\ last.query /= << >>
      /\ ILike(ret[1].content, last.query) )
    => Holds(last.result, ret[1].content)

(* C3: graceful degradation.  On a service whose embedding model is not    *)
(* loaded, a search by the owner whose non-empty query is a substring of a *)
(* text stored before (through a service that could embed it) returns      *)
(* that text as a list, without raising.                                   *)
C3_GracefulDegradation ==
    ( /\ Stored(1)
      /\ Searched
      /\ ~last.faulted
      /\ ~embedding_model[last.inst]
      /\ last.user_id = ret[1].user_id
      /\ last.memory_type = "None"
      /\ last.query /= << >>
      /\ ILike(ret[1].content, last.query) )
    => (last.kind = "list" /\ Holds(last.result, ret[1].content))

(* C4: record/vector linkage.  When no store_memory call is in progress    *)
(* and nothing has failed, every position of every loaded index is the     *)
(* vector_id of some memory record, and every record's vector_id is a      *)
(* position of a loaded index.                                             *)
C4_Linkage ==
    ( (\A t \in Thread : pc[t] = "idle") /\ ~faulted )
    => /\ \A i \in Inst :
            \A p \in 0..(Len(faiss_index[i].vecs) - 1) :
                \E n \in DOMAIN memory : memory[n].vector_id = p
       /\ \A n \in DOMAIN memory :
            \E i \in Inst :
                /\ 0 <= memory[n].vector_id
                /\ memory[n].vector_id < Len(faiss_index[i].vecs)

(* C5: serialized index mutations.  Two store_memory calls on the same     *)
(* MemoryService that both returned True, with nothing failing, were       *)
(* given different positions.                                              *)
C5_DistinctPositions ==
    \A t1, t2 \in Thread :
        ( /\ t1 /= t2
          /\ Stored(t1) /\ Stored(t2)
          /\ ret[t1].inst = ret[t2].inst )
        => ret[t1].vector_id /= ret[t2].vector_id

(* C6: no exception escapes.  Whatever fails, a finished store_memory or   *)
(* update_user_preferences call has returned a boolean, a search has       *)
(* returned a list and get_user_context a mapping.                         *)
C6_NoExceptionEscapes ==
    /\ \A t \in Thread : ret[t].kind \in { "none", "bool" }
    /\ Searched => last.kind = "list"
    /\ last.op = "get_user_context" => last.kind = "dict"
    /\ last.kind /= "raised"

(* a semantic search in which the index search or the session raised and   *)
(* the keyword search behind it failed too                                 *)
C6_Witness ==
    /\ last.op = "semantic_search"
    /\ last.faulted
    /\ StoreAvailable(last.inst)
    /\ last.kind = "list"
    /\ \E t \in Thread : ret[t].kind = "bool" /\ ~ret[t].val

(* C7: partial-context resilience.  When the read of career goals or of    *)
(* skills fails inside get_user_context, the bundle returned is not the    *)
(* error mapping: it still has every section.                              *)
C7_PartialContext ==
    ( /\ last.op = "get_user_context"
      /\ last.bundle.failed \in { "career_goals", "skills" } )
    => /\ last.kind = "dict"
       /\ ~last.bundle.error
       /\ ContextKeys \subseteq last.bundle.keys

C8_Unavailable(i) == ~embedding_model[i] \/ ~faiss_index[i].loaded

(* C8: store_memory on a service whose index or embedding model is         *)
(* unavailable.  No call on such a service gets past the entry check, and  *)
(* the step in which it returns gives False and leaves the in-memory       *)
(* indexes, the index file and the memory table as they were.              *)
C8_UnavailableStoreChangesNothing ==
    [][ \A t \in Thread :
          /\ pc'[t] /= "idle" => ~C8_Unavailable(loc'[t].inst)
          /\ ( /\ ret'[t] /= ret[t]
               /\ C8_Unavailable(ret'[t].inst) )
             => ( /\ ret'[t].val = FALSE
                  /\ pc'[t] = "idle"
                  /\ faiss_index' = faiss_index
                  /\ disk' = disk
                  /\ memory' = memory ) ]_vars

(* store_memory has returned False on a service without a model and on a   *)
(* service without an index                                                *)
C8_Witness ==
    \E t1, t2 \in Thread :
        /\ ret[t1].kind = "bool" /\ ~ret[t1].val
        /\ ~embedding_model[ret[t1].inst]
        /\ ret[t2].kind = "bool" /\ ~ret[t2].val
        /\ ~faiss_index[ret[t2].inst].loaded
        /\ built[ret[t1].inst] /\ built[ret[t2].inst]

(* C9: a store_memory call whose vector was added but whose record was     *)
(* not written has returned False.                                         *)
C9_RecordFailureReported ==
    \A t \in Thread :
        (ret[t].kind = "bool" /\ ret[t].added /\ ~ret[t].wrote)
        => ~ret[t].val

(* C10: a store_memory call that returned True has written the index file  *)
(* after its add.                                                          *)
C10_SnapshotOnSuccess ==
    \A t \in Thread :
        (ret[t].kind = "bool" /\ ret[t].val) => ret[t].saved

C12_PersistenceRoundTrip ==
    [][ /\ \A t \in Thread :
             (pc[t] = "save" /\ pc'[t] = "db" /\ loc'[t].saved)
             => LET before == faiss_index[loc[t].inst].vecs
                    after == InitFaissIndex(disk', TRUE).vecs
                IN  /\ after = before
                    /\ \A c \in Contents, k \in TopKs :
                         FaissSearch(after, Encode(c), k)
                           = FaissSearch(before, Encode(c), k)
        /\ \A i, j \in Inst :
             ( /\ ~built[j] /\ built'[j] /\ faiss_index'[j].loaded
               /\ faiss_index[i].loaded
               /\ disk.exists
               /\ disk = SaveIndex(faiss_index[i], disk, TRUE) )
             => /\ faiss_index'[j].vecs = faiss_index[i].vecs
                /\ \A c \in Contents, k \in TopKs :
                     FaissSearch(faiss_index'[j].vecs, Encode(c), k)
                       = FaissSearch(faiss_index[i].vecs, Encode(c), k) ]_vars

(* a service that has never stored holds the vectors another service       *)
(* added and saved: it got them from the file                              *)
C12_Witness ==
    \E i, j \in Inst :
        /\ i /= j
        /\ built[i] /\ built[j]
        /\ Len(faiss_index[j].vecs) >= 1
        /\ faiss_index[j].vecs = faiss_index[i].vecs
        /\ \A t \in Thread :
             /\ (ret[t].kind = "bool" /\ ret[t].added) => ret[t].inst = i
             /\ pc[t] /= "idle" => loc[t].inst = i

Sorted(s) == \A n \in 1..(Len(s) - 1) : s[n].score >= s[n + 1].score

HitScores == { 0, 90, 200 }

(* C13: order and size of results.  Every list a search returns is in      *)
(* non-increasing order of score and no longer than top_k; so is what the  *)
(* sort-and-truncate of search_memories makes of its queries on the        *)
(* current tables for every user, query, memory_type and top_k, and what   *)
(* the merge of semantic_search makes of two semantic hits of any scores   *)
(* and a keyword hit.                                                      *)
C13_SortedAndBounded ==
    /\ Searched => (Sorted(last.result) /\ Len(last.result) <= last.top_k)
    /\ \A u \in Users, q \in Queries, mt \in SearchTypes, k \in TopKs :
         LET b == SortTop(IF mt /= "None" THEN TargetedSearch(u, q, mt, k)
                          ELSE GeneralSearch(u, q, k), k)
         IN  Sorted(b.val) /\ Len(b.val) <= k
    /\ \A s1, s2 \in HitScores, k \in TopKs :
         LET m == Merged(<< Hit(s1, << >>, "career", 1, "faiss"),
                            Hit(s2, << >>, "career", 1, "faiss") >>,
                         Return("list", << Hit(95, << >>, "career", 1,
                                               "memory") >>), k)
         IN  Sorted(m.val) /\ Len(m.val) <= k

(* a search for one result by a user who has a career goal and a skill     *)
(* that both match the query                                               *)
C13_Witness ==
    /\ Searched
    /\ last.top_k = 1
    /\ last.memory_type = "career"
    /\ Len(TargetedSearch(last.user_id, last.query, "career", 2).val) = 2

(* C14: record without vector_id.  A keyword search by the owner, nothing  *)
(* failing, whose non-empty query is contained in the content of a memory  *)
(* record with NULL vector_id returns that record; and no result resolved  *)
(* from an index position is built from such a record.                     *)
C14_NullVectorId ==
    \A n \in DOMAIN memory :
        ( /\ memory[n].vector_id = NULL
          /\ last.op = "search_memories"
          /\ ~last.faulted
          /\ last.user_id = memory[n].user_id
          /\ last.memory_type = "None"
          /\ last.query /= << >>
          /\ ILike(memory[n].content, last.query) )
        => /\ Holds(last.result, memory[n].content)
           /\ \A h \in DOMAIN last.result : last.result[h].src /= "faiss"

(* C15: store_memory interleaved with semantic_search.  Every result of    *)
(* semantic_search that was resolved from an index position is a           *)
(* committed memory record of the caller whose vector_id is a position     *)
(* of the index searched: the add and the commit are both done.            *)
C15_SearchableAfterCommit ==
    last.op = "semantic_search" =>
        \A h \in DOMAIN last.result :
            last.result[h].src = "faiss" =>
                \E n \in DOMAIN memory :
                    /\ memory[n].content = last.result[h].content
                    /\ memory[n].user_id = last.user_id
                    /\ 0 <= memory[n].vector_id
                    /\ memory[n].vector_id
                         < Len(faiss_index[last.inst].vecs)

(* a semantic search, nothing failing, by the user whose store_memory      *)
(* call has added its vector and not yet reached the database block, with  *)
(* a query contained in the text being stored                              *)
C15_Witness ==
    /\ last.op = "semantic_search"
    /\ ~last.faulted
    /\ StoreAvailable(last.inst)
    /\ pc[1] = "db"
    /\ loc[1].inst = last.inst
    /\ loc[1].user_id = last.user_id
    /\ last.query /= << >>
    /\ ILike(loc[1].content, last.query)
    /\ Len(faiss_index[last.inst].vecs) >= 1

MemorySectionKeys ==
    { "memories", "relevant_memories", "recent_memories", "memory_search" }

(* C17: context bundle.  The mapping get_user_context returns when no      *)
(* read was made to fail is the bundle, with the preferences, the domain   *)
(* summaries and a section of memory-search results.                       *)
C17_BundleHasMemories ==
    (last.op = "get_user_context" /\ ~last.faulted)
    => /\ ~last.bundle.error
       /\ "preferences" \in last.bundle.keys
       /\ last.bundle.keys \cap MemorySectionKeys /= {}

PreferencesStep(t) ==
    \/ pc[t] = "idle" /\ pc'[t] = "add"
         /\ loc'[t].memory_type = "preferences"
    \/ pc[t] # "idle" /\ pc'[t] # pc[t]
         /\ loc[t].memory_type = "preferences"
    \/ ret'[t] # ret[t] /\ ret'[t].memory_type = "preferences"

(* C19: frame of update_user_preferences.  Every step of such a call is a  *)
(* step of one store_memory call tagged "preferences": it leaves the       *)
(* relational tables alone, and with them the preferences column that      *)
(* get_user_context reads from the user row; it leaves the constructed     *)
(* services, their embedding providers and the indexes of the other        *)
(* services alone; it adds at most one record, tagged "preferences"; and   *)
(* the call returns True exactly when its store_memory call ran to its     *)
(* end.                                                                    *)
C19_PreferencesFrame ==
    [][\A t \in Thread : PreferencesStep(t) =>
          /\ rows' = rows
          /\ \A u \in Users : UserPreferences(u)' = UserPreferences(u)
          /\ built' = built
          /\ embedding_model' = embedding_model
          /\ \A j \in Inst :
                faiss_index'[j] # faiss_index[j] =>
                   /\ pc[t] = "add"
                   /\ j = loc[t].inst
                   /\ faiss_index'[j].vecs =
                         Append(faiss_index[j].vecs, loc[t].embedding)
          /\ disk' # disk => pc[t] = "save"
          /\ memory' # memory =>
                /\ Len(memory') = Len(memory) + 1
                /\ memory'[Len(memory')].memory_type = "preferences"
          /\ ret'[t] # ret[t] =>
                /\ ret'[t].memory_type = "preferences"
                /\ ret'[t].val = (pc[t] = "db")
                /\ ret'[t].val = ret'[t].added
      ]_vars

(* an update_user_preferences call returned True for a user whose row      *)
(* holds preferences, after its vector went into the index                 *)
C19_Witness ==
    \E t \in Thread :
        /\ ret[t].kind = "bool"
        /\ ret[t].memory_type = "preferences"
        /\ ret[t].val
        /\ UserPreferences(ret[t].user_id) # << >>
        /\ Len(faiss_index[ret[t].inst].vecs) > 0

(* cut-offs a similarity threshold could have, in hundredths               *)
SimilarityThresholds == { 50, 100 }

C21_GenericAmongCandidates ==
    \A n \in DOMAIN memory, q \in Queries, k \in TopKs :
        (q /= << >> /\ ILike(memory[n].content, q)) =>
            LET c == TargetedSearch(memory[n].user_id, q, "career", k).val
            IN  \E h \in DOMAIN c :
                   /\ c[h].src = "memory"
                   /\ c[h].content = memory[n].content

(* tier of a keyword hit, by the table it was built from                   *)
TierRank(h) ==
    IF h.src = "memory" THEN 1
    ELSE IF h.src = "careergoal" THEN 2
    ELSE IF h.src = "habit" THEN 3
    ELSE 4

TierOrdered(s) ==
    \A a, b \in DOMAIN s : a < b => TierRank(s[a]) <= TierRank(s[b])

(* C22: relevance tiers.  A keyword search without memory_type returns     *)
(* its hits tier by tier, memory records before career goals before        *)
(* habits before financial goals, and no more than top_k of them; and on   *)
(* the current tables, for every user, query and top_k, the tiers          *)
(* collected one after the other hold at most top_k hits before the cut,   *)
(* at every stage, and come out of the sort in tier order.                 *)
C22_RelevanceTiers ==
    /\ (last.op = "search_memories" /\ last.memory_type = "None") =>
          (TierOrdered(last.result) /\ Len(last.result) <= last.top_k)
    /\ \A u \in Users, q \in Queries, k \in TopKs :
          LET three == WithHabits(u, q, k,
                           WithCareerGoals(u, q, k, MemoryHits(u, q, k)))
              all == GeneralSearch(u, q, k)
          IN  /\ Len(three) <= k
              /\ TierOrdered(SortByScore(three))
              /\ ~all.raised =>
                    /\ Len(all.val) <= k
                    /\ TierOrdered(SortTop(all, k).val)

(* a keyword search without memory_type for two results, nothing failing,  *)
(* by a user who has a memory record, a career goal and a habit that all   *)
(* match the query: the first two tiers fill the slots                     *)
C22_Witness ==
    /\ last.op = "search_memories"
    /\ last.memory_type = "None"
    /\ ~last.faulted
    /\ last.top_k = 2
    /\ Len(MemoryHits(last.user_id, last.query, 2)) = 1
    /\ Len(DomainHits("careergoal", last.user_id, last.query, 2, 90,
                      "career")) >= 1
    /\ Len(DomainHits("habit", last.user_id, last.query, 2, 85,
                      "habits")) >= 1

(* positions in the career-goal table of the rows of user u that match q;  *)
(* a later position is a later created_at                                  *)
MatchingGoals(u, q) ==
    { n \in DOMAIN rows : /\ rows[n].table = "careergoal"
                          /\ rows[n].user_id = u
                          /\ ILike(rows[n].text, q) }

Newest(S) == CHOOSE n \in S : \A m \in S : m <= n

FromIndex(h) == h.src = "faiss"
FromKeyword(h) == h.src /= "faiss"

(* C24: keyword supplement.  In the list a semantic_search returned with   *)
(* nothing failing, the hits that did not come from the index are, when    *)
(* the index hits are fewer than top_k, exactly what search_memories       *)
(* returns for the same user, query and memory_type and the missing        *)
(* slots, and the whole list is sorted by score and no longer than top_k;  *)
(* and the merge of any semantic hit with any keyword hit puts the higher  *)
(* score first and keeps both when top_k allows.                           *)
C24_KeywordSupplement ==
    /\ (last.op = "semantic_search" /\ ~last.faulted) =>
          LET sem == SelectSeq(last.result, FromIndex)
          IN  /\ Len(sem) < last.top_k =>
                    SelectSeq(last.result, FromKeyword) =
                        search_memories(last.user_id, last.query,
                                        last.memory_type,
                                        last.top_k - Len(sem), TRUE).val
              /\ Sorted(last.result)
              /\ Len(last.result) <= last.top_k
    /\ \A s1, s2 \in HitScores, k \in TopKs :
          LET sem == << Hit(s1, << >>, "general", 1, "faiss") >>
              kw == << Hit(s2, << >>, "career", 1, "careergoal") >>
              m == Merged(sem, Return("list", kw), k).val
          IN  /\ Len(m) = Min(k, 2)
              /\ m[1].score = IF s1 >= s2 THEN s1 ELSE s2
              /\ k >= 2 => m[2].score = IF s1 >= s2 THEN s2 ELSE s1

(* a semantic_search for two results, nothing failing, on a ready service  *)
(* whose index holds a vector, by a user who has a career goal matching    *)
(* the query: the index hits are fewer than top_k                          *)
C24_Witness ==
    /\ last.op = "semantic_search"
    /\ ~last.faulted
    /\ last.top_k = 2
    /\ StoreAvailable(last.inst)
    /\ Len(faiss_index[last.inst].vecs) >= 1
    /\ Len(SelectSeq(last.result, FromIndex)) < 2
    /\ Len(DomainHits("careergoal", last.user_id, last.query, 2, 90,
                      "career")) >= 1

(* the index of service j lacks a vector of the on-disk snapshot           *)
Behind(j) ==
    /\ built[j]
    /\ faiss_index[j].loaded
    /\ disk.exists
    /\ \E p \in 1..disk.ntotal :
          \/ p > Len(faiss_index[j].vecs)
          \/ faiss_index[j].vecs[p] /= ReadIndex(disk)[p]

(* C25: bounded staleness.  Whenever the loaded index of a service lacks   *)
(* a vector of the on-disk snapshot, that service eventually holds it.     *)
C25_BoundedStaleness ==
    \A j \in Inst : Behind(j) ~> ~Behind(j)

IsPrefix(s, t) == Len(s) <= Len(t) /\ SubSeq(t, 1, Len(s)) = s

(* C26: append-only.  No step of any operation removes or changes a        *)
(* vector of a service's index or a stored record: the index and the       *)
(* record table after a step begin with what they held before it.          *)
C26_AppendOnly ==
    [][ /\ \A i \in Inst :
             IsPrefix(faiss_index[i].vecs, faiss_index'[i].vecs)
        /\ IsPrefix(memory, memory')
      ]_vars

(* a second store_memory call on a service has added a different vector    *)
(* behind the first one's and returned True                                *)
C26_Witness ==
    \E t \in Thread :
        /\ ret[t].kind = "bool" /\ ret[t].val
        /\ ret[t].vector_id = 1
        /\ Len(faiss_index[ret[t].inst].vecs) = 2
        /\ faiss_index[ret[t].inst].vecs[1] /=
              faiss_index[ret[t].inst].vecs[2]

(* C27: the snapshot under concurrent writers.  No step takes a vector     *)
(* out of the index file: the vectors of the file after a step begin with  *)
(* the vectors it held before, so their number never decreases.            *)
C27_SnapshotKeepsVectors ==
    [][ /\ disk'.ntotal >= disk.ntotal
        /\ IsPrefix(ReadIndex(disk), ReadIndex(disk'))
      ]_vars

(* number of entries of a result list with content c                       *)
Entries(result, c) ==
    LET Same(h) == h.content = c
    IN  Len(SelectSeq(result, Same))

(* number of rows of user u, in the record table and the domain tables,    *)
(* whose text is c                                                         *)
Records(u, c) ==
    LET SameRecord(m) == m.user_id = u /\ m.content = c
        SameRow(r) == r.user_id = u /\ r.text = c
    IN  Len(SelectSeq(memory, SameRecord)) + Len(SelectSeq(rows, SameRow))

C29_RoadmapIsMilestones ==
    last.op = "roadmap" =>
        /\ last.kind = "list"
        /\ last.result /= << >>
        /\ \A h \in DOMAIN last.result :
              last.result[h].memory_type = "object"

(* C30: generate_tasks_for_goal.  Every call returns a list.               *)
C30_TasksIsList ==
    last.op = "generate_tasks_for_goal" => last.kind = "list"

====
